---- MODULE Spec2Model ----
(***************************************************************************)
(* create-backup.py: create_backup() mirrors the directory source_dir into *)
(* backup_dir with os.walk, pruning the directories named in exclude_dirs, *)
(* and the __main__ block turns what escapes create_backup() into the      *)
(* process exit status.                                                    *)
(*                                                                         *)
(* A path is the sequence of its components from the filesystem root.      *)
(* The source is a tree of listable directories and regular files; a file  *)
(* of the set unreadable cannot be opened, so shutil.copy2 raises on it.   *)
(* The destination may already hold directories and files when a run       *)
(* starts.  The content of a file is an opaque value: the content of the   *)
(* source file f is SrcData(f).                                            *)
(***************************************************************************)
EXTENDS Integers, Sequences, FiniteSets, TLC

(***************************************************************************)
(* Bounds of the model.                                                    *)
(***************************************************************************)
MaxDirs == 3          \* directories of the source tree below source_dir
MaxFiles == 3         \* files of the source tree
MaxUnreadable == 1    \* source files that cannot be read
MaxRuns == 2          \* successive invocations of the script

(***************************************************************************)
(* lines 15-19                                                             *)
(***************************************************************************)
source_dir == <<"home", "van", "reward-project">>
backup_dir == <<"home", "van", "Reward Project backup">>
exclude_dirs == {"node_modules", ".git", "__pycache__", ".next", "dist", "build"}

(***************************************************************************)
(* Paths.                                                                  *)
(***************************************************************************)
Parent(p) == SubSeq(p, 1, Len(p) - 1)
Base(p) == p[Len(p)]

\* p, a path at or under base, relative to base
RelTo(base, p) == SubSeq(p, Len(base) + 1, Len(p))

\* the permutations of the set S, as sequences
Perms(S) ==
    {s \in [1..Cardinality(S) -> S] : \A i, j \in 1..Cardinality(S) : s[i] = s[j] => i = j}

(***************************************************************************)
(* The directories and files a source tree of the model is made of, as     *)
(* paths relative to source_dir.                                           *)
(***************************************************************************)
DirUniverse ==
    {<<"a">>, <<"a", "a">>, <<"a", "node_modules">>, <<"a", "node_modules", "a">>,
     <<"dist">>, <<".git">>, <<"a", "__pycache__">>, <<"a", "a", "build">>, <<".next">>}

FileUniverse ==
    {<<"b.txt">>, <<"a", "x.txt">>, <<"a", "y.txt">>, <<"a", "a", "x.txt">>,
     <<"a", "node_modules", "y.txt">>, <<"a", "node_modules", "a", "x.txt">>,
     <<"dist", "x.txt">>}

SrcDirSets ==
    {{source_dir \o d : d \in E \cup {<<>>}} : E \in {E \in SUBSET DirUniverse :
        /\ Cardinality(E) <= MaxDirs
        /\ \A d \in E : Parent(d) \in E \cup {<<>>}}}

SrcFileSets(D) ==
    {F \in SUBSET {source_dir \o f : f \in {g \in FileUniverse : source_dir \o Parent(g) \in D}} :
        Cardinality(F) <= MaxFiles}

\* the content of the source file f, and what is not the content of any
SrcData(f) == <<"data">> \o f
Stale == <<"stale">>
Partial == <<"partial">>

NoFiles == [p \in {} |-> Stale]
InBackup(S) == {backup_dir \o p : p \in S}

(***************************************************************************)
(* What backup_dir may hold before the first run: nothing (it does not     *)
(* exist); an earlier backup with a directory and a file the source no     *)
(* longer has, an old copy of b.txt, and a directory where the source has  *)
(* the file a/y.txt; a regular file named a; a regular file at backup_dir  *)
(* itself.                                                                 *)
(***************************************************************************)
DestInits ==
    { [dirs |-> {}, files |-> NoFiles],
      [dirs |-> InBackup({<<>>, <<"old">>, <<"a">>, <<"a", "y.txt">>}),
       files |-> [p \in InBackup({<<"old", "z.txt">>, <<"b.txt">>}) |-> Stale]],
      [dirs |-> InBackup({<<>>}), files |-> [p \in InBackup({<<"a">>}) |-> Stale]],
      [dirs |-> {}, files |-> [p \in InBackup({<<>>}) |-> Stale]] }

VARIABLES
    srcDirs,        \* the directories of the source tree
    srcFiles,       \* the files of the source tree
    unreadable,     \* the source files that cannot be opened
    dstDirs,        \* the directories of the destination tree
    dstFiles,       \* the files of the destination tree and their content
    pc,             \* "start", "walk", "files", "exit"
    exc,            \* the exception that left create_backup, or "none"
    exitStatus,     \* the process exit status, -1 while running
    run,            \* the number of this invocation
    stack,          \* os.walk: the directories still to visit
    root,           \* the directory os.walk yielded last
    files,          \* the files of root the for loop has not reached
    copied_files,   \* line 41 (0 before it)
    copied_dirs,    \* line 42 (0 before it)
    dst0,           \* history: the destination when this run started
    visited,        \* history: the directories os.walk yielded in this run
    copied,         \* history: the files whose copy2 returned in this run
    failed,         \* history: the files whose copy2 raised in this run
    interrupted     \* history: the user interrupted this run

vars == <<srcDirs, srcFiles, unreadable, dstDirs, dstFiles, pc, exc,
          exitStatus, run, stack, root, files, copied_files, copied_dirs,
          dst0, visited, copied, failed, interrupted>>

src == <<srcDirs, srcFiles, unreadable>>
dst == [dirs |-> dstDirs, files |-> dstFiles]

Init ==
    \* source_dir is a directory, or a regular file, or does not exist
    /\ \/ /\ srcDirs \in SrcDirSets
          /\ srcFiles \in SrcFileSets(srcDirs)
          /\ unreadable \in {U \in SUBSET srcFiles : Cardinality(U) <= MaxUnreadable}
       \/ /\ srcDirs = {}
          /\ srcFiles \in {{source_dir}, {}}
          /\ unreadable = {}
    /\ \E d \in DestInits : dstDirs = d.dirs /\ dstFiles = d.files
    /\ pc = "start"
    /\ exc = "none"
    /\ exitStatus = -1
    /\ run = 1
    /\ stack = <<>>
    /\ root = <<>>
    /\ files = {}
    /\ copied_files = 0
    /\ copied_dirs = 0
    /\ dst0 = dst
    /\ visited = {}
    /\ copied = {}
    /\ failed = {}
    /\ interrupted = FALSE


(***************************************************************************)
(* The library calls of create_backup.                                     *)
(***************************************************************************)
\* line 30 without its test: the source is taken to exist
ExistsAlways(p) == TRUE

\* Path.exists(), line 30
Exists(p) == p \in srcDirs \cup srcFiles

\* the directories and files os.scandir(top) lists, as names
ChildDirs(top) == {Base(d) : d \in {e \in srcDirs : e # <<>> /\ Parent(e) = top}}
ChildFiles(top) == {Base(f) : f \in {g \in srcFiles : g # <<>> /\ Parent(g) = top}}

\* line 46 written "dirs = [...]": the list os.walk descends into is untouched
PruneNothing(dirs) == dirs

\* line 19 without its entry ".git"
PruneForgets(dirs) == {d \in dirs : d \notin exclude_dirs \ {".git"}}

\* line 46: the directories the walk keeps
Prune(dirs) == {d \in dirs : d \notin exclude_dirs}

\* line 49 taken to give the empty path for source_dir itself
RelPathEmpty(r, start) == RelTo(start, r)

\* line 49: os.path.relpath(root, source_dir), as components
RelPath(r, start) == IF r = start THEN <<".">> ELSE RelTo(start, r)

\* line 53 written "backup_dir / os.path.basename(root)"
DestRootFlat(rel_path) ==
    IF rel_path = <<".">> THEN backup_dir ELSE backup_dir \o <<rel_path[Len(rel_path)]>>

\* lines 50-53
DestRoot(rel_path) == IF rel_path = <<".">> THEN backup_dir ELSE backup_dir \o rel_path

\* d and the directories above it, up to backup_dir (what is above
\* backup_dir exists)
UpToBackup(d) == {SubSeq(d, 1, n) : n \in Len(backup_dir)..Len(d)}

\* lines 35 and 56 without exist_ok=True: mkdir raises on what exists
MkdirRaisesIfPresent(d) == d \in dstDirs \/ \E a \in UpToBackup(d) : a \in DOMAIN dstFiles

\* Path.mkdir(parents=True, exist_ok=True), lines 35 and 56: raises when d
\* or a directory above it is a regular file, and otherwise leaves d and
\* every directory above it existing
MkdirRaises(d) == \E a \in UpToBackup(d) : a \in DOMAIN dstFiles
MkdirDirs(d) == dstDirs \cup UpToBackup(d)

\* lines 62-63
SrcFile(r, file) == r \o <<file>>
DestFile(dest_root, file) == dest_root \o <<file>>

\* shutil.copy2(src_file, dest_file), line 65: a destination that is a
\* directory receives the file under its own name
Copy2Target(src_file, dest_file) ==
    IF dest_file \in dstDirs THEN dest_file \o <<Base(src_file)>> ELSE dest_file
Copy2Raises(src_file, dest_file) ==
    \/ src_file \in unreadable
    \/ Copy2Target(src_file, dest_file) \in dstDirs
Write(target, data) ==
    [p \in DOMAIN dstFiles \cup {target} |-> IF p = target THEN data ELSE dstFiles[p]]

\* lines 64-70 without the try: nothing is caught
CaughtNothing(e) == FALSE

\* line 69 written "except:": everything is caught
CaughtAll(e) == TRUE

\* line 69: except Exception
CaughtPerFile(e) == e \in {"OSError"}

\* lines 101-103 without sys.exit(1): the error is printed and the script ends
ExitStatusPrinted(e) ==
    CASE e \in {"none", "OSError"} -> 0
      [] OTHER -> 1

\* lines 95-103 and sys.exit(1) of line 32: the exit status of the process
\* when e leaves create_backup ("none": create_backup returns)
ExitStatusOf(e) ==
    CASE e = "none" -> 0
      [] e = "SystemExit(1)" -> 1
      [] e = "KeyboardInterrupt" -> 1
      [] OTHER -> 1

\* e leaves create_backup and the process exits; the destination stays
Exit(e) ==
    /\ pc' = "exit"
    /\ exc' = e
    /\ exitStatus' = ExitStatusOf(e)
    /\ stack' = <<>>
    /\ root' = <<>>
    /\ files' = {}

(***************************************************************************)
(* lines 29-42: the check of source_dir and the creation of backup_dir     *)
(***************************************************************************)
Start ==
    /\ pc = "start"
    /\ UNCHANGED <<src, dstFiles, run, dst0, visited, copied, failed, interrupted>>
    /\ IF ~Exists(source_dir)
       THEN Exit("SystemExit(1)") /\ UNCHANGED <<dstDirs, copied_files, copied_dirs>>
       ELSE IF MkdirRaises(backup_dir)
       THEN Exit("OSError") /\ UNCHANGED <<dstDirs, copied_files, copied_dirs>>
       ELSE /\ dstDirs' = MkdirDirs(backup_dir)
            /\ copied_files' = 0
            /\ copied_dirs' = 0
            /\ pc' = "walk"
            /\ stack' = <<source_dir>>
            /\ UNCHANGED <<exc, exitStatus, root, files>>

(***************************************************************************)
(* lines 44-58: os.walk yields the next directory, the body prunes its     *)
(* child directories, creates its destination directory and counts it;     *)
(* os.walk then puts the directories kept on its stack, in the order       *)
(* os.scandir listed them.  A top that cannot be listed is skipped         *)
(* (os.walk swallows the error: onerror is None).                          *)
(***************************************************************************)
VisitDir ==
    /\ pc = "walk"
    /\ stack # <<>>
    /\ UNCHANGED <<src, dstFiles, run, copied_files, dst0, copied, failed,
                   interrupted>>
    /\ LET top == Head(stack)
           rel_path == RelPath(top, source_dir)
           dest_root == DestRoot(rel_path)
       IN  IF top \notin srcDirs
           THEN /\ stack' = Tail(stack)
                /\ UNCHANGED <<dstDirs, pc, exc, exitStatus, root, files, copied_dirs, visited>>
           ELSE IF MkdirRaises(dest_root)
           THEN /\ Exit("OSError")
                /\ visited' = visited \cup {top}
                /\ UNCHANGED <<dstDirs, copied_dirs>>
           ELSE /\ dstDirs' = MkdirDirs(dest_root)
                /\ copied_dirs' = IF rel_path # <<".">> THEN copied_dirs + 1 ELSE copied_dirs
                /\ visited' = visited \cup {top}
                /\ root' = top
                /\ files' = ChildFiles(top)
                /\ \E order \in Perms(Prune(ChildDirs(top))) :
                       stack' = [i \in 1..Len(order) |-> top \o <<order[i]>>] \o Tail(stack)
                /\ pc' = IF ChildFiles(top) = {} THEN "walk" ELSE "files"
                /\ UNCHANGED <<exc, exitStatus>>

(***************************************************************************)
(* lines 61-70: one pass of the for loop.  copy2 returns, or raises an     *)
(* OSError, or the user interrupts it, before it opened the destination    *)
(* file or with the destination file partly written.                       *)
(***************************************************************************)
CopyFile ==
    /\ pc = "files"
    /\ UNCHANGED <<src, dstDirs, run, copied_dirs, dst0, visited>>
    /\ \E file \in files :
         LET src_file == SrcFile(root, file)
             dest_file == DestFile(DestRoot(RelPath(root, source_dir)), file)
             target == Copy2Target(src_file, dest_file)
             Continue == /\ files' = files \ {file}
                         /\ pc' = IF files \ {file} = {} THEN "walk" ELSE "files"
                         /\ UNCHANGED <<exc, exitStatus, stack, root>>
             Raised(e) == IF CaughtPerFile(e) THEN Continue ELSE Exit(e)
         IN  \/ /\ ~Copy2Raises(src_file, dest_file)
                /\ dstFiles' = Write(target, SrcData(src_file))
                /\ copied_files' = copied_files + 1
                /\ copied' = copied \cup {src_file}
                /\ Continue
                /\ UNCHANGED <<failed, interrupted>>
             \/ /\ Copy2Raises(src_file, dest_file)
                /\ Raised("OSError")
                /\ failed' = failed \cup {src_file}
                /\ UNCHANGED <<dstFiles, copied_files, copied, interrupted>>
             \/ /\ Raised("KeyboardInterrupt")
                /\ interrupted' = TRUE
                /\ UNCHANGED failed
                /\ \/ UNCHANGED dstFiles
                   \/ /\ ~Copy2Raises(src_file, dest_file)
                      /\ dstFiles' = Write(target, Partial)
                /\ UNCHANGED <<copied_files, copied>>

(***************************************************************************)
(* lines 72-93: the walk is over, the summary is printed and               *)
(* create_backup returns                                                   *)
(***************************************************************************)
Finish ==
    /\ pc = "walk"
    /\ stack = <<>>
    /\ Exit("none")
    /\ UNCHANGED <<src, dstDirs, dstFiles, run, copied_files, copied_dirs, dst0,
                   visited, copied, failed, interrupted>>

(***************************************************************************)
(* The user interrupts the run between two statements.                     *)
(***************************************************************************)
Interrupt ==
    /\ pc \in {"start", "walk", "files"}
    /\ Exit("KeyboardInterrupt")
    /\ interrupted' = TRUE
    /\ UNCHANGED <<src, dstDirs, dstFiles, run, copied_files, copied_dirs, dst0,
                   visited, copied, failed>>

(***************************************************************************)
(* The script is run again, on the same source, after a run that ended     *)
(* with status 0: a new process, whose counters are not yet set.           *)
(***************************************************************************)
NextRun ==
    /\ pc = "exit"
    /\ exitStatus = 0
    /\ run < MaxRuns
    /\ run' = run + 1
    /\ pc' = "start"
    /\ exc' = "none"
    /\ exitStatus' = -1
    /\ copied_files' = 0
    /\ copied_dirs' = 0
    /\ dst0' = dst
    /\ visited' = {}
    /\ copied' = {}
    /\ failed' = {}
    /\ interrupted' = FALSE
    /\ UNCHANGED <<src, dstDirs, dstFiles, stack, root, files>>

Next == Start \/ VisitDir \/ CopyFile \/ Finish \/ Interrupt \/ NextRun

Spec == Init /\ [][Next]_vars

(***************************************************************************)
(* What the claims speak of.                                               *)
(***************************************************************************)
NoExcluded(rel) == \A i \in 1..Len(rel) : rel[i] \notin exclude_dirs
SrcIsDir == source_dir \in srcDirs
SrcMissing == source_dir \notin srcDirs \cup srcFiles

\* the source directories that are not excluded and not under an excluded one
KeptDirs == {d \in srcDirs : NoExcluded(RelTo(source_dir, d))}
\* the files directly in them
KeptFiles == {f \in srcFiles : Parent(f) \in KeptDirs}
\* the source entries whose path passes through an excluded directory
ExcludedDirs == srcDirs \ KeptDirs
ExcludedFiles == srcFiles \ (KeptFiles \cup {source_dir})

\* the destination path of the source path p
Mirror(p) == backup_dir \o RelTo(source_dir, p)
HasCopy(f) == Mirror(f) \in DOMAIN dstFiles /\ dstFiles[Mirror(f)] = SrcData(f)

\* the run ended with status 0
Done == pc = "exit" /\ exitStatus = 0
Range(s) == {s[i] : i \in 1..Len(s)}

(***************************************************************************)
(* C1, as stated: after a run that ends successfully the directories of    *)
(* the destination tree, relative to backup_dir, are exactly the kept      *)
(* source directories, relative to source_dir.                             *)
(***************************************************************************)
C1_DestDirsEqualKept ==
    (Done /\ SrcIsDir) =>
        {RelTo(backup_dir, d) : d \in dstDirs} = {RelTo(source_dir, d) : d \in KeptDirs}

(***************************************************************************)
(* C1, amended: after a run that ends successfully the directories of the  *)
(* destination tree are the directories it held when the run started       *)
(* together with the mirror of every kept source directory: every kept     *)
(* source directory has its destination directory, and the run adds no     *)
(* other directory.                                                        *)
(***************************************************************************)
C1_DestDirsAreOldAndKept ==
    (Done /\ SrcIsDir) => dstDirs = dst0.dirs \cup {Mirror(d) : d \in KeptDirs}

C1_Witness ==
    /\ Done
    /\ backup_dir \o <<"old">> \in dstDirs
    /\ source_dir \o <<"a", "a">> \in srcDirs
    /\ source_dir \o <<"a", "node_modules">> \in srcDirs
    /\ backup_dir \o <<"a", "a">> \in dstDirs

C3_NothingExcludedInDest ==
    /\ \A p \in ExcludedDirs \cup ExcludedFiles :
          Mirror(p) \notin dstDirs \cup DOMAIN dstFiles
    /\ \A d \in dstDirs : NoExcluded(RelTo(backup_dir, d))
    /\ \A f \in DOMAIN dstFiles : f # backup_dir => NoExcluded(RelTo(backup_dir, Parent(f)))
    /\ \A d \in visited \cup Range(stack) : NoExcluded(RelTo(source_dir, d))

C3_Witness ==
    /\ Done
    /\ source_dir \o <<"a", "node_modules", "a", "x.txt">> \in srcFiles
    /\ source_dir \o <<"a", "x.txt">> \in copied
    /\ visited = {source_dir, source_dir \o <<"a">>}

(***************************************************************************)
(* C4: when source_dir does not exist the destination is never written     *)
(* (it stays what it was when the run started, nothing is visited and      *)
(* nothing copied) and the process exits with a status other than 0.       *)
(***************************************************************************)
C4_MissingSourceWritesNothing ==
    SrcMissing =>
        /\ dst = dst0
        /\ visited = {}
        /\ copied = {}
        /\ pc = "exit" => exitStatus = 1

C4_Witness ==
    /\ SrcMissing
    /\ pc = "exit"
    /\ exitStatus = 1
    /\ dstDirs = {}

(***************************************************************************)
(* C5, as stated: when source_dir is not an existing directory (it may be  *)
(* a regular file) a run the user does not interrupt ends with status 1    *)
(* and with the destination what it was when the run started.              *)
(***************************************************************************)
C5_NotADirectoryFailsFast ==
    (~SrcIsDir /\ pc = "exit" /\ ~interrupted) => (exitStatus = 1 /\ dst = dst0)

(***************************************************************************)
(* C6: a copy that fails does not end the run and is not counted; a        *)
(* failing copy of one file leaves the run going with the counter          *)
(* unchanged; and when the run has ended with status 0 every kept          *)
(* directory was visited, every file of a kept directory outside the set   *)
(* failed was copied, and the counter is the number of files in kept       *)
(* directories minus the number of files that failed.                      *)
(***************************************************************************)
C6_AtEnd ==
    /\ copied \cap failed = {}
    /\ copied_files = Cardinality(copied)
    /\ (Done /\ SrcIsDir) =>
          /\ visited = KeptDirs
          /\ failed \subseteq KeptFiles
          /\ \A f \in KeptFiles \ failed :
                f \in copied /\ \E p \in DOMAIN dstFiles : dstFiles[p] = SrcData(f)
          /\ copied_files = Cardinality(KeptFiles) - Cardinality(failed)

C6_FailureStep ==
    (failed' # failed /\ run' = run) =>
        /\ pc' \in {"files", "walk"}
        /\ exitStatus' = -1
        /\ copied_files' = copied_files
        /\ stack' = stack

C6_CopyFailureNeverAborts == []C6_AtEnd /\ [][C6_FailureStep]_vars

C6_Witness ==
    /\ Done
    /\ source_dir \o <<"a", "x.txt">> \in failed
    /\ source_dir \o <<"a", "y.txt">> \in copied
    /\ source_dir \o <<"a", "a", "x.txt">> \in copied
    /\ copied_files = 2

(***************************************************************************)
(* C7: a run that follows a run that ended with status 0, on the same      *)
(* source, can fail only by the user's interrupt, and when it ends with    *)
(* status 0 the destination tree, directories and file contents, is what   *)
(* it was after the first run.                                             *)
(***************************************************************************)
C7_SecondRunChangesNothing ==
    run > 1 =>
        /\ pc = "exit" => exc \in {"none", "KeyboardInterrupt"}
        /\ Done => dst = dst0

C7_Witness ==
    /\ run > 1
    /\ Done
    /\ copied_files = 3
    /\ copied_dirs = 2
    /\ dstFiles # NoFiles

C9_Interrupted ==
    interrupted => (pc = "exit" /\ exitStatus = 1 /\ exc = "KeyboardInterrupt")

C9_InterruptStep ==
    (interrupted' /\ ~interrupted) =>
        /\ dstDirs' = dstDirs
        /\ DOMAIN dstFiles \subseteq DOMAIN dstFiles'
        /\ \A p \in DOMAIN dstFiles' : dstFiles'[p] # Partial =>
              (p \in DOMAIN dstFiles /\ dstFiles[p] = dstFiles'[p])
        /\ copied' = copied
        /\ failed' = failed
        /\ copied_files' = copied_files
        /\ copied_dirs' = copied_dirs

C9_AfterExit == pc = "exit" => dst' = dst

C9_InterruptStopsWithoutRollback ==
    []C9_Interrupted /\ [][C9_InterruptStep /\ C9_AfterExit]_vars

C9_Witness ==
    /\ interrupted
    /\ pc = "exit"
    /\ Cardinality(copied) = 2
    /\ \E p \in DOMAIN dstFiles : dstFiles[p] = Partial
    /\ source_dir \o <<"a", "a">> \in srcDirs \ visited

(***************************************************************************)
(* C10: the counters are 0 when the run starts and never decrease during   *)
(* it; directories-created is the number of directories os.walk yielded    *)
(* other than source_dir, which at the end of a run are the kept           *)
(* directories, whether or not their destination directories existed;      *)
(* files-copied is the number of copies that succeeded; and the source     *)
(* tree {a/x.txt, a/node_modules/y.txt, b.txt}, all readable, gives        *)
(* directories-created = 1 and files-copied = 2, and from a destination    *)
(* that does not exist the destination tree {a/x.txt, b.txt}.              *)
(***************************************************************************)
ExampleDirs == {source_dir \o d : d \in {<<>>, <<"a">>, <<"a", "node_modules">>}}
ExampleFiles ==
    {source_dir \o f : f \in {<<"a", "x.txt">>, <<"a", "node_modules", "y.txt">>, <<"b.txt">>}}
IsExample == srcDirs = ExampleDirs /\ srcFiles = ExampleFiles /\ unreadable = {}

C10_Counts ==
    /\ pc = "start" => copied_files = 0 /\ copied_dirs = 0
    /\ exc # "OSError" =>
          /\ copied_dirs = Cardinality(visited \ {source_dir})
          /\ copied_files = Cardinality(copied)
    /\ (Done /\ SrcIsDir) => copied_dirs = Cardinality(KeptDirs \ {source_dir})
    /\ (Done /\ IsExample) =>
          /\ copied_dirs = 1
          /\ copied_files = 2
          /\ (dst0.dirs = {} /\ dst0.files = NoFiles) =>
                /\ dstDirs = InBackup({<<>>, <<"a">>})
                /\ DOMAIN dstFiles = InBackup({<<"a", "x.txt">>, <<"b.txt">>})
                /\ \A f \in {source_dir \o <<"a", "x.txt">>, source_dir \o <<"b.txt">>} :
                      HasCopy(f)

C10_CountersGrow ==
    run' = run => (copied_files' >= copied_files /\ copied_dirs' >= copied_dirs)

C10_Counters == []C10_Counts /\ [][C10_CountersGrow]_vars

C10_Witness ==
    /\ Done
    /\ IsExample
    /\ dst0.dirs = {}
    /\ dst0.files = NoFiles
    /\ copied_dirs = 1
    /\ copied_files = 2
====
